---- MODULE Spec2Model ----
(***************************************************************************)
(* A model of the bookstore API of final_project: the user directory and   *)
(* the registration / login handlers of router/auth_users.js, the          *)
(* verifyToken gate, the review handlers behind it, and the public review  *)
(* lookup of router/general.js.                                            *)
(*                                                                         *)
(* Node runs one callback at a time, so every action below is one          *)
(* callback run to its next await: the synchronous part of a handler, a    *)
(* timer firing, or the continuation after a bcrypt promise resolves.      *)
(* Time is counted in seconds, the granularity of jsonwebtoken's iat/exp.  *)
(***************************************************************************)
EXTENDS Integers, Sequences, FiniteSets, TLC

VARIABLES
    JWT_SECRET,  \* process.env.JWT_SECRET is set (TRUE) or not (FALSE)
    users,       \* the in-memory users array
    books,       \* the book catalog of booksdb.js, ISBN -> record
    pending,     \* the register / login requests waiting on a timer or on bcrypt
    held,        \* client side: the token a login returned that the client carries
    now,         \* the clock, in seconds
    last         \* what the step just taken answered

vars == <<JWT_SECRET, users, books, pending, held, now, last>>

(***************************************************************************)
(* Bounds and input domains.                                               *)
(***************************************************************************)
MaxUsers == 2      \* registrations are issued while the directory stays within this
MaxInflight == 2   \* register / login requests in flight at the same time

ExpiresIn == 3600  \* jwt.sign(..., { expiresIn: '1h' }), in seconds

\* "constructor" and "__proto__" are ordinary strings for the directory and
\* for a token, and names of inherited properties for a review object.
Usernames == {"alice", "constructor", "__proto__"}
AccountNames == {"alice", "constructor"}
ForgedNames == {"alice"}          \* the username in a token signed with another key
Passwords == {"pw1", "pw2"}
Missing == ""                     \* a field the request does not carry
ISBNs == {"1"}                    \* the keys of the catalog
UnknownISBN == "99"
Texts == {"great", "meh"}
NoUser == "-"                     \* req.user was never set

\* the moments the clock is read at: a token signed at 0 is one second short
\* of its expiry at ExpiresIn - 1 and expired at ExpiresIn
Instants == {0, ExpiresIn - 1, ExpiresIn}

Slots == 1..MaxInflight

(***************************************************************************)
(* Plain JavaScript objects used as maps: book.reviews = {}.               *)
(* The own properties are a function; a read also sees what the object     *)
(* inherits from Object.prototype.                                         *)
(***************************************************************************)
EmptyMap == [k \in {} |-> ""]

\* the property names every {} inherits (those the inputs can name)
ObjectPrototypeKeys == {"constructor", "__proto__"}

\* obj[key] is truthy: an own non-empty string, or an inherited member
ObjTruthy(obj, key) ==
    \/ key \in DOMAIN obj /\ obj[key] /= ""
    \/ key \notin DOMAIN obj /\ key \in ObjectPrototypeKeys

\* obj[key] = value, value a string: the __proto__ setter ignores a primitive
ObjSet(obj, key, value) ==
    IF key = "__proto__" THEN obj
    ELSE [k \in DOMAIN obj \cup {key} |-> IF k = key THEN value ELSE obj[k]]

\* delete obj[key]: removes an own property only
ObjDelete(obj, key) == [k \in DOMAIN obj \ {key} |-> obj[k]]

(***************************************************************************)
(* bcrypt and jsonwebtoken, by what the handlers rely on.                  *)
(***************************************************************************)
BcryptHash(password) == <<"$2b$10$", password>>

BcryptCompare(password, hash) == hash = BcryptHash(password)

NoToken == [username |-> NoUser, iat |-> 0, sig |-> "none"]

\* jwt.sign({ username }, secret, { expiresIn: '1h' }) at time t
JwtSign(username, t) == [username |-> username, iat |-> t, sig |-> "server"]

\* mutants of JwtVerify: the payload is decoded without checking the
\* signature; the expiry is compared with <= instead of <
JwtDecodeOnly(token, t) == t < token.iat + ExpiresIn

JwtVerifyLate(token, t) == token.sig = "server" /\ t <= token.iat + ExpiresIn

\* jwt.verify(token, secret) at time t calls back without an error
JwtVerify(token, t) == token.sig = "server" /\ t < token.iat + ExpiresIn

(***************************************************************************)
(* The user directory.                                                     *)
(***************************************************************************)
UserExists(us, username) == \E i \in 1..Len(us) : us[i].username = username

\* mutant of IsValid: the check never finds the name taken
IsValidAlways(us, username) == TRUE

\* isValid(username): what the timer callback resolves to
IsValid(us, username) == ~UserExists(us, username)

\* users.find(user => user.username === username): the first match
FindUser(us, username) ==
    us[CHOOSE i \in 1..Len(us) :
          /\ us[i].username = username
          /\ \A j \in 1..(i - 1) : us[j].username /= username]

(***************************************************************************)
(* Requests in flight and responses.                                       *)
(***************************************************************************)
\* known: the username was in the directory when the request came in
Free == [op |-> "free", stage |-> "", username |-> "", password |-> "",
         match |-> FALSE, known |-> FALSE]

\* the Authorization header of a request
NoHeader == [kind |-> "none", token |-> NoToken]        \* no header at all
NoBearer == [kind |-> "notoken", token |-> NoToken]     \* "Bearer", nothing after it
Bearer(token) == [kind |-> "bearer", token |-> token]   \* "Bearer <token>"

\* The request just served and res.status(status).json({ message, reviews: body }).
\* auth is the request's Authorization header and user is req.user.username;
\* isbn is the book a 200 of a review request is about; hadEntry tells whether
\* a DELETE found an own entry of the user.
Response(op, status, message, user, isbn, body, hadEntry, auth) ==
    [op |-> op, status |-> status, message |-> message, user |-> user,
     isbn |-> isbn, body |-> body, hadEntry |-> hadEntry, auth |-> auth]

\* a status and a message, nothing else
Answer(op, status, message) ==
    Response(op, status, message, NoUser, "", EmptyMap, FALSE, NoHeader)

\* the callback ended without answering: the request waits
Waiting(op) == Answer(op, 0, "")

FreeSlots == {s \in Slots : pending[s] = Free}

\* a new request takes the lowest free slot
NextSlot == CHOOSE s \in FreeSlots : \A r \in FreeSlots : s <= r

InFlight(op) == Cardinality({s \in Slots : pending[s].op = op})

(***************************************************************************)
(* The catalog as the process loads it: no book has a review map yet.      *)
(***************************************************************************)
NoReviews == [hasReviews |-> FALSE, reviews |-> EmptyMap]

Init ==
    /\ JWT_SECRET \in BOOLEAN
    /\ users = <<>>
    /\ books = [i \in ISBNs |-> NoReviews]
    /\ pending = [s \in Slots |-> Free]
    /\ held = {}
    /\ now = 0
    /\ last = Waiting("start")

(***************************************************************************)
(* POST /register                                                          *)
(***************************************************************************)
\* the handler up to `await isValid(username)`
Register(username, password) ==
    /\ FreeSlots /= {}
    /\ Len(users) + InFlight("register") < MaxUsers
    /\ IF username = Missing \/ password = Missing
       THEN /\ last' = Answer("register", 400, "Username and password are required")
            /\ UNCHANGED pending
       ELSE /\ pending' = [pending EXCEPT ![NextSlot] =
                   [op |-> "register", stage |-> "isValid", username |-> username,
                    password |-> password, match |-> FALSE,
                    known |-> UserExists(users, username)]]
            /\ last' = Waiting("register")
    /\ UNCHANGED <<JWT_SECRET, users, books, held, now>>

\* the 500 ms timer of isValid fires; the handler runs up to `await bcrypt.hash`
RegisterIsValid(s) ==
    /\ pending[s].op = "register" /\ pending[s].stage = "isValid"
    /\ IF IsValid(users, pending[s].username)
       THEN /\ pending' = [pending EXCEPT ![s].stage = "hash"]
            /\ last' = Waiting("register")
       ELSE /\ pending' = [pending EXCEPT ![s] = Free]
            /\ last' = Answer("register", 400, "Username already exists")
    /\ UNCHANGED <<JWT_SECRET, users, books, held, now>>

\* bcrypt.hash resolves; the handler pushes the account and answers
RegisterHash(s) ==
    /\ pending[s].op = "register" /\ pending[s].stage = "hash"
    /\ users' = Append(users, [username |-> pending[s].username,
                               password |-> BcryptHash(pending[s].password)])
    /\ pending' = [pending EXCEPT ![s] = Free]
    /\ last' = Answer("register", 201, "User registered successfully")
    /\ UNCHANGED <<JWT_SECRET, books, held, now>>

(***************************************************************************)
(* POST /login                                                             *)
(***************************************************************************)
\* the handler up to `await authenticatedUser(username, password)`
Login(username, password) ==
    /\ FreeSlots /= {}
    /\ IF username = Missing \/ password = Missing
       THEN /\ last' = Answer("login", 400, "Username and password are required")
            /\ UNCHANGED pending
       ELSE /\ pending' = [pending EXCEPT ![NextSlot] =
                   [op |-> "login", stage |-> "timer", username |-> username,
                    password |-> password, match |-> FALSE, known |-> FALSE]]
            /\ last' = Waiting("login")
    /\ UNCHANGED <<JWT_SECRET, users, books, held, now>>

\* the 500 ms timer of authenticatedUser fires: users.find, then bcrypt.compare
LoginTimer(s) ==
    /\ pending[s].op = "login" /\ pending[s].stage = "timer"
    /\ IF UserExists(users, pending[s].username)
       THEN /\ pending' = [pending EXCEPT
                   ![s].stage = "compare",
                   ![s].match = BcryptCompare(pending[s].password,
                                    FindUser(users, pending[s].username).password)]
            /\ last' = Waiting("login")
       ELSE /\ pending' = [pending EXCEPT ![s] = Free]
            /\ last' = Answer("login", 401, "Invalid username or password")
    /\ UNCHANGED <<JWT_SECRET, users, books, held, now>>

\* the client carries one token: it keeps the one it has or takes the new one
Keep(tokens, token) == {tokens, {token}} \ {{}}

\* bcrypt.compare resolves; the handler answers, signing a token on success
LoginCompare(s) ==
    /\ pending[s].op = "login" /\ pending[s].stage = "compare"
    /\ pending' = [pending EXCEPT ![s] = Free]
    /\ IF ~pending[s].match
       THEN /\ last' = Answer("login", 401, "Invalid username or password")
            /\ UNCHANGED held
       ELSE IF ~JWT_SECRET
       THEN /\ last' = Answer("login", 500, "Internal server error")
            /\ UNCHANGED held
       ELSE /\ last' = Answer("login", 200, "Login successful")
            /\ held' \in Keep(held, JwtSign(pending[s].username, now))
    /\ UNCHANGED <<JWT_SECRET, users, books, now>>

(***************************************************************************)
(* verifyToken                                                             *)
(***************************************************************************)
\* a token signed with some other key
Forged(username, t) == [username |-> username, iat |-> t, sig |-> "forged"]

AuthHeaders ==
    {NoHeader, NoBearer}
        \cup {Bearer(Forged(u, now)) : u \in ForgedNames}
        \cup {Bearer(t) : t \in held}

Gate(next, status, message, user) ==
    [next |-> next, status |-> status, message |-> message, user |-> user]

\* mutant of VerifyToken: the secret is looked at before the header
VerifyTokenSecretFirst(auth, secret, t) ==
    IF ~secret THEN Gate(FALSE, 500, "Internal server error", NoUser)
    ELSE IF auth.kind = "none"
    THEN Gate(FALSE, 401, "Authorization header missing", NoUser)
    ELSE IF auth.kind = "notoken" THEN Gate(FALSE, 401, "Token missing", NoUser)
    ELSE IF ~JwtVerify(auth.token, t)
    THEN Gate(FALSE, 403, "Invalid or expired token", NoUser)
    ELSE Gate(TRUE, 0, "", auth.token.username)

\* the middleware: the answer it gives, or next() with req.user set
VerifyToken(auth, secret, t) ==
    IF auth.kind = "none"
    THEN Gate(FALSE, 401, "Authorization header missing", NoUser)
    ELSE IF auth.kind = "notoken" THEN Gate(FALSE, 401, "Token missing", NoUser)
    ELSE IF ~secret THEN Gate(FALSE, 500, "Internal server error", NoUser)
    ELSE IF ~JwtVerify(auth.token, t)
    THEN Gate(FALSE, 403, "Invalid or expired token", NoUser)
    ELSE Gate(TRUE, 0, "", auth.token.username)

(***************************************************************************)
(* PUT /auth/review/:isbn and DELETE /auth/review/:isbn, after the gate    *)
(***************************************************************************)
Outcome(status, message, bks, body, hadEntry) ==
    [status |-> status, message |-> message, books |-> bks, body |-> body,
     hadEntry |-> hadEntry]

\* mutant of PutHandler: the review map is started afresh on every request
PutHandlerFresh(bks, isbn, username, review) ==
    IF review = Missing
    THEN Outcome(400, "Review content is required", bks, EmptyMap, FALSE)
    ELSE IF isbn \notin DOMAIN bks
    THEN Outcome(404, "Book not found", bks, EmptyMap, FALSE)
    ELSE LET reviews == ObjSet(EmptyMap, username, review)
         IN  Outcome(200, "Review added/updated successfully",
                     [bks EXCEPT ![isbn] = [hasReviews |-> TRUE, reviews |-> reviews]],
                     reviews, FALSE)

\* mutant of PutHandler: the review map is created before the input is looked at
PutHandlerInitFirst(bks, isbn, username, review) ==
    LET init == IF isbn \in DOMAIN bks
                THEN [bks EXCEPT ![isbn].hasReviews = TRUE]
                ELSE bks
    IN  IF review = Missing
        THEN Outcome(400, "Review content is required", init, EmptyMap, FALSE)
        ELSE IF isbn \notin DOMAIN bks
        THEN Outcome(404, "Book not found", bks, EmptyMap, FALSE)
        ELSE LET reviews == ObjSet(init[isbn].reviews, username, review)
             IN  Outcome(200, "Review added/updated successfully",
                         [init EXCEPT ![isbn].reviews = reviews], reviews, FALSE)

PutHandler(bks, isbn, username, review) ==
    IF review = Missing
    THEN Outcome(400, "Review content is required", bks, EmptyMap, FALSE)
    ELSE IF isbn \notin DOMAIN bks
    THEN Outcome(404, "Book not found", bks, EmptyMap, FALSE)
    ELSE LET book == bks[isbn]
             reviews == ObjSet(IF book.hasReviews THEN book.reviews ELSE EmptyMap,
                               username, review)
         IN  Outcome(200, "Review added/updated successfully",
                     [bks EXCEPT ![isbn] = [hasReviews |-> TRUE, reviews |-> reviews]],
                     reviews, FALSE)

DeleteHandler(bks, isbn, username) ==
    IF isbn \notin DOMAIN bks
    THEN Outcome(404, "Book not found", bks, EmptyMap, FALSE)
    ELSE LET book == bks[isbn]
         IN  IF book.hasReviews /\ ObjTruthy(book.reviews, username)
             THEN LET reviews == ObjDelete(book.reviews, username)
                  IN  Outcome(200, "Review deleted successfully",
                              [bks EXCEPT ![isbn].reviews = reviews], reviews,
                              username \in DOMAIN book.reviews)
             ELSE Outcome(404, "Review not found for this user", bks, EmptyMap, FALSE)

\* what a request that passed the gate answers
Handled(op, isbn, user, out, auth) ==
    Response(op, out.status, out.message, user,
             IF out.status = 200 THEN isbn ELSE "", out.body, out.hadEntry, auth)

\* what a request the gate turned down answers
Refused(op, gate, auth) ==
    Response(op, gate.status, gate.message, NoUser, "", EmptyMap, FALSE, auth)

PutReview(isbn, auth, review) ==
    LET gate == VerifyToken(auth, JWT_SECRET, now)
        out == PutHandler(books, isbn, gate.user, review)
    IN  /\ IF gate.next
           THEN /\ last' = Handled("put", isbn, gate.user, out, auth)
                /\ books' = out.books
           ELSE /\ last' = Refused("put", gate, auth)
                /\ UNCHANGED books
        /\ UNCHANGED <<JWT_SECRET, users, pending, held, now>>

DeleteReview(isbn, auth) ==
    LET gate == VerifyToken(auth, JWT_SECRET, now)
        out == DeleteHandler(books, isbn, gate.user)
    IN  /\ IF gate.next
           THEN /\ last' = Handled("delete", isbn, gate.user, out, auth)
                /\ books' = out.books
           ELSE /\ last' = Refused("delete", gate, auth)
                /\ UNCHANGED books
        /\ UNCHANGED <<JWT_SECRET, users, pending, held, now>>

(***************************************************************************)
(* GET /review/:isbn                                                       *)
(***************************************************************************)
\* mutant of GetReviewByIsbn: an empty review map is rejected like a missing one
GetReviewByIsbnNonEmpty(bks, isbn) ==
    IF isbn \in DOMAIN bks /\ bks[isbn].hasReviews /\ bks[isbn].reviews /= EmptyMap
    THEN Outcome(200, "", bks, bks[isbn].reviews, FALSE)
    ELSE Outcome(404, "Review not found", bks, EmptyMap, FALSE)

\* what the timer callback of getReviewByIsbn settles with
GetReviewByIsbn(bks, isbn) ==
    IF isbn \in DOMAIN bks /\ bks[isbn].hasReviews
    THEN Outcome(200, "", bks, bks[isbn].reviews, FALSE)
    ELSE Outcome(404, "Review not found", bks, EmptyMap, FALSE)

\* the handler reads the catalog once, when its 1 s timer fires
GetReview(isbn) ==
    /\ last' = Handled("get", isbn, NoUser, GetReviewByIsbn(books, isbn), NoHeader)
    /\ UNCHANGED <<JWT_SECRET, users, books, pending, held, now>>

(***************************************************************************)
(* Time passes.                                                            *)
(***************************************************************************)
Tick ==
    /\ \E t \in Instants : t > now /\ now' = t
    /\ last' = Waiting("tick")
    /\ UNCHANGED <<JWT_SECRET, users, books, pending, held>>

(***************************************************************************)
(* The whole service. Clients send register and login requests one after   *)
(* another here, each with any number of review requests and clock reads   *)
(* between its callbacks; SpecAccounts lets the account requests overlap.  *)
(***************************************************************************)
NoneInFlight == FreeSlots = Slots

Next ==
    \/ NoneInFlight /\ \E u \in Usernames \cup {Missing}, p \in {"pw1", Missing} : Register(u, p)
    \/ \E s \in Slots : RegisterIsValid(s)
    \/ \E s \in Slots : RegisterHash(s)
    \/ NoneInFlight /\ \E u \in Usernames \cup {Missing}, p \in Passwords \cup {Missing} : Login(u, p)
    \/ \E s \in Slots : LoginTimer(s)
    \/ \E s \in Slots : LoginCompare(s)
    \/ \E i \in ISBNs \cup {UnknownISBN}, a \in AuthHeaders, r \in Texts \cup {Missing} :
          PutReview(i, a, r)
    \/ \E i \in ISBNs \cup {UnknownISBN}, a \in AuthHeaders : DeleteReview(i, a)
    \/ \E i \in ISBNs \cup {UnknownISBN} : GetReview(i)
    \/ Tick

Spec == Init /\ [][Next]_vars

(***************************************************************************)
(* The account requests alone, up to MaxInflight of them in flight at the  *)
(* same time.                                                              *)
(***************************************************************************)
NextAccounts ==
    \/ \E u \in AccountNames \cup {Missing}, p \in Passwords \cup {Missing} : Register(u, p)
    \/ \E s \in Slots : RegisterIsValid(s)
    \/ \E s \in Slots : RegisterHash(s)
    \/ \E u \in AccountNames \cup {Missing}, p \in Passwords \cup {Missing} : Login(u, p)
    \/ \E s \in Slots : LoginTimer(s)
    \/ \E s \in Slots : LoginCompare(s)

SpecAccounts == Init /\ [][NextAccounts]_vars

(***************************************************************************)
(* Properties.                                                             *)
(***************************************************************************)
Failure == {400, 401, 403, 404, 500}

Protected == {"put", "delete"}

AnyISBN == ISBNs \cup {UnknownISBN}

\* the user's own entry in the book's review map, Missing when there is none
EntryOf(book, username) ==
    IF book.hasReviews /\ username \in DOMAIN book.reviews
    THEN book.reviews[username]
    ELSE Missing

\* C1: in every reachable state no two accounts of the user directory have
\* the same username, also when registrations of one username overlap.
C1_UniqueUsernames ==
    \A i, j \in 1..Len(users) : i /= j => users[i].username /= users[j].username

\* C4: a register request that comes in when its username is already in the
\* directory (an earlier register of it has answered 201) is answered 400
\* "Username already exists" by its isValid callback and appends nothing.
C4_SecondRegisterFails ==
    [][\A s \in Slots :
          (pending[s].op = "register" /\ pending[s].known /\ pending'[s] /= pending[s])
              => /\ pending'[s] = Free
                 /\ last' = Answer("register", 400, "Username already exists")
                 /\ users' = users]_vars

\* C4 witness: a second register of a registered username was turned down,
\* and the directory holds that username once.
C4_Witness ==
    /\ last = Answer("register", 400, "Username already exists")
    /\ Len(users) = 1
    /\ \A s \in Slots : pending[s] = Free

\* C2: the catalog changes only in a PUT or DELETE step that passed
\* verifyToken with a bearer token, and in that step every entry of every
\* book under a username other than the token's stays as it was.
C2_OnlyOwnEntryChanges ==
    [][books' /= books =>
          /\ last'.op \in Protected
          /\ last'.status = 200
          /\ last'.auth.kind = "bearer"
          /\ VerifyToken(last'.auth, JWT_SECRET, now).next
          /\ last'.auth.token.username = last'.user
          /\ \A i \in ISBNs : \A u \in Usernames \ {last'.user} :
                EntryOf(books'[i], u) = EntryOf(books[i], u)]_vars

\* C2 witness: alice's review was deleted while constructor's review stands.
C2_Witness ==
    /\ last.op = "delete" /\ last.status = 200 /\ last.user = "alice" /\ last.hadEntry
    /\ \E i \in ISBNs : EntryOf(books[i], "constructor") /= Missing

\* C3 as stated: without JWT_SECRET every protected call answers 500.
C3_Always500 ==
    (~JWT_SECRET /\ last.op \in Protected) => last.status = 500

\* C3 amended: without JWT_SECRET a protected call that carries a token after
\* "Bearer" answers 500, and one with no Authorization header or no token in
\* it answers 401.
C3_500OnlyWithToken ==
    (~JWT_SECRET /\ last.op \in Protected)
        => last.status = IF last.auth.kind = "bearer" THEN 500 ELSE 401

\* C3 witness: a PUT without JWT_SECRET was answered 500.
C3_Witness ==
    ~JWT_SECRET /\ last.op = "put" /\ last.status = 500

\* C5: a step that answers 400, 401, 403, 404 or 500 leaves the catalog and
\* the user directory as they were.
C5_FailureChangesNothing ==
    [][last'.status \in Failure => (books' = books /\ users' = users)]_vars

\* C5 witness: a review request failed on an expired token while the catalog
\* holds a review and the directory an account.
C5_Witness ==
    /\ last.op \in Protected /\ last.status = 403
    /\ \E i \in ISBNs : books[i].hasReviews /\ DOMAIN books[i].reviews /= {}
    /\ Len(users) > 0

\* C6: every key of every review map is the username of an account of the
\* directory (accounts are never removed, so: of one that was there before).
C6_ReviewKeysAreUsers ==
    \A i \in ISBNs : \A u \in DOMAIN books[i].reviews : UserExists(users, u)

\* C6 witness: a review is stored.
C6_Witness ==
    \E i \in ISBNs : DOMAIN books[i].reviews /= {}

\* C7 as stated, in its particular case: once a DELETE has removed the only
\* review of a book, a GET /review/:isbn of that book answers 404.
C7_EmptyMapNotFound ==
    [][\A i \in ISBNs :
          (/\ last.op = "delete" /\ last.status = 200 /\ last.hadEntry
           /\ last.isbn = i /\ last.body = EmptyMap
           /\ GetReview(i))
              => last'.status = 404]_vars

\* C7 amended: GET /review/:isbn answers 404 exactly when the ISBN is unknown
\* or the book has no review map; a review map that exists, empty or not, is
\* answered 200 with the map.
C7_NotFoundOnlyWithoutMap ==
    [][(last'.op = "get") =>
          \A i \in AnyISBN :
             GetReview(i) =>
                 IF i \in ISBNs /\ books[i].hasReviews
                 THEN last'.status = 200 /\ last'.body = books[i].reviews
                 ELSE last'.status = 404]_vars

\* C7 witness: a GET was answered 200 with an empty review map.
C7_Witness ==
    last.op = "get" /\ last.status = 200 /\ last.body = EmptyMap

\* C8: a protected request carrying a token that a login signed passed
\* verifyToken as the token's user if the clock is before iat + ExpiresIn, and
\* was answered 403 if not, whatever happened since the login; and the token
\* the client carries is of a registered user and signed no later than now.
C8_TokenValidForOneHour ==
    /\ (last.op \in Protected /\ last.auth.token.sig = "server")
           => IF now < last.auth.token.iat + ExpiresIn
              THEN last.user = last.auth.token.username
                   /\ last.status \notin {401, 403, 500}
              ELSE last.user = NoUser /\ last.status = 403
    /\ \A t \in held :
           t.sig = "server" /\ t.iat <= now /\ UserExists(users, t.username)

\* C8 witness: a review was stored with a token one second before it expires.
C8_Witness ==
    /\ last.op = "put" /\ last.status = 200 /\ now = ExpiresIn - 1
    /\ last.auth.token = JwtSign(last.user, 0)

\* C9: a PUT that answers 200 leaves the review map with an entry of the
\* user holding the text, and the same PUT again changes nothing.
C9_PutIdempotent ==
    [][\A i \in ISBNs, a \in AuthHeaders, r \in Texts :
          (PutReview(i, a, r) /\ last'.status = 200)
              => /\ EntryOf(books'[i], last'.user) = r
                 /\ PutHandler(books', i, last'.user, r).books = books']_vars

\* C10: a DELETE by a user with an entry in the book's review map answers 200,
\* removes that entry alone and returns the remaining map; a DELETE of the
\* same user on the same book right after it answers 404 and changes nothing.
C10_DeleteThenNotFound ==
    [][\A i \in ISBNs, a \in AuthHeaders :
          (DeleteReview(i, a) /\ last'.user /= NoUser)
              => /\ EntryOf(books[i], last'.user) /= Missing
                    => /\ last'.status = 200
                       /\ books'[i].reviews = ObjDelete(books[i].reviews, last'.user)
                       /\ last'.body = books'[i].reviews
                       /\ \A u \in Usernames \ {last'.user} :
                             EntryOf(books'[i], u) = EntryOf(books[i], u)
                 /\ (last.op = "delete" /\ last.status = 200 /\ last.hadEntry
                        /\ last.user = last'.user /\ last.isbn = i)
                    => (last'.status = 404 /\ books' = books)]_vars

(***************************************************************************)
(* What C9 and C10 leave standing: both hold of a username that is not the *)
(* name of a member of Object.prototype.                                   *)
(***************************************************************************)
OrdinaryNames == Usernames \ ObjectPrototypeKeys

PutIdempotentOrdinary ==
    [][\A i \in ISBNs, a \in AuthHeaders, r \in Texts :
          (PutReview(i, a, r) /\ last'.status = 200 /\ last'.user \in OrdinaryNames)
              => /\ EntryOf(books'[i], last'.user) = r
                 /\ PutHandler(books', i, last'.user, r).books = books']_vars

DeleteThenNotFoundOrdinary ==
    [][\A i \in ISBNs, a \in AuthHeaders :
          (DeleteReview(i, a) /\ last'.user \in OrdinaryNames)
              => IF EntryOf(books[i], last'.user) /= Missing
                 THEN /\ last'.status = 200
                      /\ books'[i].reviews = ObjDelete(books[i].reviews, last'.user)
                      /\ last'.body = books'[i].reviews
                 ELSE last'.status = 404 /\ books' = books]_vars

====
